---- MODULE Spec2Model ----
(***************************************************************************)
(* The epoll reactor (reactor.rs), the request-context actor               *)
(* (request_context.rs), the content-length actor (content_actor.rs) and   *)
(* the accept / signal / timer listeners (request.rs, signal.rs, timer.rs) *)
(* as one state machine.  The kernel (epoll interest set, sockets,         *)
(* eventfd counters) and the TCP clients are the environment.              *)
(***************************************************************************)
EXTENDS Integers, Sequences, FiniteSets, TLC

\* ------------------------------------------------------------------ bounds
MaxClients == 2      \* client fd numbers that can be open at the same time
MaxAccepts == 2      \* connections made over the whole run
MaxFaults  == 1      \* failures of peers and syscalls over the whole run
MaxBatch   == 2      \* actions a batch of BatchSpec starts with
MaxLines   == 3      \* lines of a request text of ParseSpec

\* ------------------------------------------------------------- descriptors
ContentEfd == 4
ReqEfd     == 5
ListenFd   == 6
SignalFd   == 7
TimerFd    == 8
FirstClientFd == 9
ClientFds  == FirstClientFd..(FirstClientFd + MaxClients - 1)
BaselineFds == {ContentEfd, ReqEfd, ListenFd, SignalFd, TimerFd}
\* The eventfds of the two actor mailboxes.  Each Handle is held twice: by
\* the code that created and bound it, and as the clone the other actor
\* enqueues on.
MailboxFds == {ContentEfd, ReqEfd}
HandlesPerMailbox == 2
Fds        == BaselineFds \cup ClientFds

READ_FLAGS  == "EPOLLONESHOT|EPOLLIN"
WRITE_FLAGS == "EPOLLONESHOT|EPOLLOUT"
EWOULDBLOCK == 11
CONTENT_LENGTH_SZ == 16

\* --------------------------------------------------------- request texts
\* A line of a request: whether it contains "HTTP", its first 16 characters
\* when they spell a header name (name), the text after them as a number
\* (val, valid), the length of the line without its terminator (text) and
\* of its terminator (eol).
ReqLine(n)  == [http |-> TRUE,  name |-> "", val |-> 0, valid |-> TRUE, text |-> n, eol |-> 2]
Digits(v)   == IF v < 10 THEN 1 ELSE 2
HdrLine(nm, v) == [http |-> FALSE, name |-> nm, val |-> v, valid |-> TRUE,
                   text |-> CONTENT_LENGTH_SZ + Digits(v), eol |-> 2]
BadHdrLine  == [http |-> FALSE, name |-> "content-length: ", val |-> 0, valid |-> FALSE,
                text |-> CONTENT_LENGTH_SZ + 10, eol |-> 2]
EmptyHdrLine == [http |-> FALSE, name |-> "content-length: ", val |-> 0, valid |-> FALSE,
                 text |-> CONTENT_LENGTH_SZ, eol |-> 2]
BlankLine   == [http |-> FALSE, name |-> "", val |-> 0, valid |-> TRUE, text |-> 0, eol |-> 2]
BodyLine(n) == [http |-> FALSE, name |-> "", val |-> 0, valid |-> TRUE, text |-> n, eol |-> 0]

RECURSIVE Bytes(_)
Bytes(chunk) == IF chunk = <<>> THEN 0
                ELSE Head(chunk).text + Head(chunk).eol + Bytes(Tail(chunk))

\* What each kind of client sends, as the chunks one read returns.
Plans == [ split |-> << <<ReqLine(15), HdrLine("content-length: ", 5), BlankLine>>,
                        <<BodyLine(5)>> >>,
           big   |-> << <<ReqLine(15), HdrLine("Content-Length: ", 50), BlankLine>>,
                        <<BodyLine(50)>> >>,
           raw   |-> << <<BodyLine(3)>> >>,
           none  |-> << >>,
           bad   |-> << <<ReqLine(14), BadHdrLine, BlankLine>> >> ]
GoodPlans == {"split", "big", "raw"}
AllPlans  == GoodPlans \cup {"none", "bad"}

\* ------------------------------------------------------------------ state
VARIABLES
  receivers,       \* Reactor.receivers: fd -> receiver
  interest,        \* the kernel's epoll interest set: fd -> [flags, armed]
  phase,           \* where Reactor::run is: "wait", "dispatch", "done"
  events,          \* events of the batch not dispatched yet: fd -> mask
  pending,         \* interest_actions of the batch
  result,          \* "running", or how run ended: "ok", "err" (a callback
                   \* returned Err), "panic", "apply_err" (apply returned Err)
  buf,             \* RequestContext.buf: fd -> bytes accumulated
  content_length,  \* RequestContext.content_length: fd -> length
  reqQueue,        \* request_context::Handle.ctr_queue
  reqTokens,       \* counter of the request-context eventfd
  contQueue,       \* content_actor::Handle.ctr_queue
  contTokens,      \* counter of the content-actor eventfd
  sock,            \* per client fd: the connection behind it
  backlog,         \* connections waiting in the listening socket
  sigPending,      \* SIGINT pending on the signalfd
  timerExpired,    \* the timerfd has an unread expiration
  failing,         \* whether peers and syscalls may fail in this run
  handles,         \* live Handle values of each mailbox: eventfd -> count
  faults,          \* failures of peers and syscalls so far
  hist             \* counters of what has happened (for the properties)

vars == <<receivers, interest, phase, events, pending, result, buf,
          content_length, reqQueue, reqTokens, contQueue, contTokens, sock,
          backlog, sigPending, timerExpired, failing, handles, faults, hist>>

EmptyFn == [x \in {} |-> {}]
Put(f, k, v) == [x \in (DOMAIN f) \cup {k} |-> IF x = k THEN v ELSE f[x]]
Drop(f, k)   == [x \in (DOMAIN f) \ {k} |-> f[x]]

ClosedSock == [plan |-> "none", sent |-> 0, rx |-> 0, st |-> "closed"]

\* The state when run is entered: the five descriptors of the program are
\* registered for read.
StartOfRun(mayFail) ==
  /\ receivers = [f \in BaselineFds |->
                    CASE f = ContentEfd -> "content_actor"
                      [] f = ReqEfd     -> "request_context"
                      [] f = ListenFd   -> "listener"
                      [] f = SignalFd   -> "signal"
                      [] OTHER          -> "timer"]
  /\ interest = [f \in BaselineFds |-> [flags |-> READ_FLAGS, armed |-> TRUE]]
  /\ phase = "wait"
  /\ events = EmptyFn
  /\ pending = <<>>
  /\ result = "running"
  /\ buf = EmptyFn
  /\ content_length = EmptyFn
  /\ reqQueue = <<>>
  /\ reqTokens = 0
  /\ contQueue = <<>>
  /\ contTokens = 0
  /\ sock = [f \in ClientFds |-> ClosedSock]
  /\ backlog = 0
  /\ sigPending = FALSE
  /\ timerExpired = FALSE
  /\ failing = mayFail
  /\ handles = [f \in MailboxFds |-> HandlesPerMailbox]
  /\ faults = 0
  /\ hist = [accepted |-> 0, sigDelivered |-> FALSE, hupSeen |-> {},
             reqEnq |-> 0, reqHandled |-> 0, contEnq |-> 0, contHandled |-> 0,
             inOrder |-> TRUE,
             reqWakes |-> 0, contWakes |-> 0, batch |-> <<>>, lastBatch |-> <<>>,
             writes |-> [f \in ClientFds |-> 0],
             answered |-> [f \in ClientFds |-> FALSE],
             opens  |-> [f \in Fds |-> IF f \in BaselineFds THEN 1 ELSE 0],
             closes |-> [f \in Fds |-> 0]]

Init == StartOfRun(TRUE)

\* ------------------------------------------------------------ the kernel
EPOLLIN  == "EPOLLIN"
EPOLLOUT == "EPOLLOUT"
EPOLLHUP == "EPOLLHUP"

\* Whether a read on the client socket would not block.
SockReadable(s) == s.rx > 0 \/ s.st \in {"eof", "rst", "spur"}

\* The event mask the kernel reports for fd f under its registered flags.
\* A socket in state "hup" reports a shutdown-class event only.
Mask(f) ==
  IF f \in ClientFds THEN
    IF sock[f].st = "closed" THEN {}
    ELSE IF sock[f].st = "hup" THEN {EPOLLHUP}
    ELSE (IF interest[f].flags = READ_FLAGS /\ SockReadable(sock[f]) THEN {EPOLLIN} ELSE {})
         \cup (IF interest[f].flags = WRITE_FLAGS THEN {EPOLLOUT} ELSE {})
         \cup (IF sock[f].st \in {"rst", "shut"} THEN {EPOLLHUP} ELSE {})
  ELSE IF interest[f].flags # READ_FLAGS THEN {}
  ELSE IF f = ListenFd   THEN (IF backlog > 0 THEN {EPOLLIN} ELSE {})
  ELSE IF f = SignalFd   THEN (IF sigPending THEN {EPOLLIN} ELSE {})
  ELSE IF f = TimerFd    THEN (IF timerExpired THEN {EPOLLIN} ELSE {})
  ELSE IF f = ReqEfd     THEN (IF reqTokens > 0 THEN {EPOLLIN} ELSE {})
  ELSE (IF contTokens > 0 THEN {EPOLLIN} ELSE {})

ReadySet == {f \in DOMAIN interest : interest[f].armed /\ Mask(f) # {}}

OpenClients == {f \in ClientFds : sock[f].st # "closed"}

\* accept(2) returns the lowest descriptor number that is free.
LowestFree == CHOOSE f \in ClientFds \ OpenClients :
                \A g \in ClientFds \ OpenClients : f <= g

\* ------------------------------------------------------- the environment
\* The reactor observes the environment in epoll_wait and in the syscalls of
\* its callbacks, which act on the state of the socket at that moment: a
\* step of the environment between epoll_wait and a callback has the effect
\* of the same step before epoll_wait, so the environment steps while the
\* reactor waits.
Running == result = "running"
Observable(f) == phase = "wait"

\* A client connects: the connection waits in the listening socket.
ClientConnect ==
  /\ Running /\ phase = "wait"
  /\ backlog = 0
  /\ hist.accepted < MaxAccepts
  /\ Cardinality(OpenClients) < MaxClients
  /\ faults = 0 \/ OpenClients = {}
  /\ backlog' = 1
  /\ UNCHANGED <<failing, handles, receivers, interest, phase, events, pending, result, buf,
                 content_length, reqQueue, reqTokens, contQueue, contTokens, sock,
                 sigPending, timerExpired, faults, hist>>

\* A client sends the next chunk of its request.
ClientSend(f) ==
  /\ Running /\ Observable(f)
  /\ sock[f].st \in {"est", "spur"}
  /\ sock[f].rx = 0
  /\ sock[f].sent < Len(Plans[sock[f].plan])
  /\ sock' = [sock EXCEPT ![f].sent = @ + 1, ![f].rx = 1]
  /\ UNCHANGED <<failing, handles, receivers, interest, phase, events, pending, result, buf,
                 content_length, reqQueue, reqTokens, contQueue, contTokens,
                 backlog, sigPending, timerExpired, faults, hist>>

\* Failures are explored on connections that are served one at a time:
\* a failure happens while at most one connection exists, and after a
\* failure connections do not overlap.
MayFail == failing /\ faults < MaxFaults /\ Cardinality(OpenClients) + backlog <= 1

\* A client closes its side: once it has sent its request, or, as a failure,
\* earlier.
PeerClose(f) ==
  /\ Running /\ Observable(f)
  /\ sock[f].st \in {"est", "spur"}
  /\ IF sock[f].sent = Len(Plans[sock[f].plan])
     THEN UNCHANGED faults
     ELSE MayFail /\ faults' = faults + 1
  /\ sock' = [sock EXCEPT ![f].st = "eof"]
  /\ UNCHANGED <<failing, handles, receivers, interest, phase, events, pending, result, buf,
                 content_length, reqQueue, reqTokens, contQueue, contTokens,
                 backlog, sigPending, timerExpired, hist>>

\* The connection is reset: reads and writes fail from now on.
PeerReset(f) ==
  /\ Running /\ Observable(f) /\ MayFail
  /\ sock[f].st \in {"est", "spur", "eof"}
  /\ sock' = [sock EXCEPT ![f].st = "rst", ![f].rx = 0]
  /\ faults' = faults + 1
  /\ UNCHANGED <<failing, handles, receivers, interest, phase, events, pending, result, buf,
                 content_length, reqQueue, reqTokens, contQueue, contTokens,
                 backlog, sigPending, timerExpired, hist>>

\* The kernel has only a shutdown-class event (hangup, error) for the fd.
PeerHangup(f) ==
  /\ Running /\ Observable(f) /\ MayFail
  /\ sock[f].st \in {"est", "spur", "eof"}
  /\ sock' = [sock EXCEPT ![f].st = "hup", ![f].rx = 0]
  /\ faults' = faults + 1
  /\ UNCHANGED <<failing, handles, receivers, interest, phase, events, pending, result, buf,
                 content_length, reqQueue, reqTokens, contQueue, contTokens,
                 backlog, sigPending, timerExpired, hist>>

\* The kernel reports the socket readable although a read would block.
SpuriousWake(f) ==
  /\ Running /\ Observable(f) /\ MayFail
  /\ sock[f].st = "est"
  /\ sock[f].rx = 0
  /\ sock' = [sock EXCEPT ![f].st = "spur"]
  /\ faults' = faults + 1
  /\ UNCHANGED <<failing, handles, receivers, interest, phase, events, pending, result, buf,
                 content_length, reqQueue, reqTokens, contQueue, contTokens,
                 backlog, sigPending, timerExpired, hist>>

\* The one-second timer expires.
TimerExpire ==
  /\ Running /\ phase = "wait"
  /\ ~timerExpired
  /\ timerExpired' = TRUE
  /\ UNCHANGED <<failing, handles, receivers, interest, phase, events, pending, result, buf,
                 content_length, reqQueue, reqTokens, contQueue, contTokens, sock,
                 backlog, sigPending, faults, hist>>

\* SIGINT is sent to the process; it is blocked and queued for the signalfd.
Sigint ==
  /\ Running /\ phase = "wait"
  /\ ~sigPending
  /\ sigPending' = TRUE
  /\ UNCHANGED <<failing, handles, receivers, interest, phase, events, pending, result, buf,
                 content_length, reqQueue, reqTokens, contQueue, contTokens, sock,
                 backlog, timerExpired, faults, hist>>

\* -------------------------------------------------------------- reactor.rs
Add(fd, flags, receiver) == [op |-> "Add", fd |-> fd, flags |-> flags, receiver |-> receiver]
Modify(fd, flags) == [op |-> "Modify", fd |-> fd, flags |-> flags, receiver |-> ""]
Remove(fd)        == [op |-> "Remove", fd |-> fd, flags |-> "", receiver |-> ""]
Exit              == [op |-> "Exit", fd |-> 0, flags |-> "", receiver |-> ""]
PrintStats        == [op |-> "PrintStats", fd |-> 0, flags |-> "", receiver |-> ""]

\* What the reactor's operations act on: the registry, the kernel's interest
\* set, the descriptors, and whether a syscall has failed (err) or Exit was
\* seen (exit).
Kernel == [receivers |-> receivers, interest |-> interest, sock |-> sock,
           closes |-> hist.closes, err |-> FALSE, exit |-> FALSE]

IsOpen(k, fd) == IF fd \in ClientFds THEN k.sock[fd].st # "closed"
                 ELSE hist.opens[fd] > k.closes[fd]

\* close(fd)
CloseFd(k, fd) ==
  [k EXCEPT !.closes[fd] = @ + 1,
            !.sock = IF fd \in ClientFds THEN [@ EXCEPT ![fd] = ClosedSock] ELSE @]

\* add_interest that records the receiver without registering the descriptor
\* with epoll.
AddInterestOnlyMap(k, fd, flags, receiver) ==
  IF fd \in DOMAIN k.interest \/ ~IsOpen(k, fd)
  THEN [k EXCEPT !.err = TRUE]
  ELSE [k EXCEPT !.receivers = Put(@, fd, receiver)]

\* epoll_ctl(EPOLL_CTL_ADD) fails on a descriptor that is registered already
\* or is not open.
AddInterest(k, fd, flags, receiver) ==
  IF fd \in DOMAIN k.interest \/ ~IsOpen(k, fd)
  THEN [k EXCEPT !.err = TRUE]
  ELSE [k EXCEPT !.interest = Put(@, fd, [flags |-> flags, armed |-> TRUE]),
                 !.receivers = Put(@, fd, receiver)]

\* epoll_ctl(EPOLL_CTL_MOD) fails on a descriptor that is not registered.
ModifyInterest(k, fd, flags) ==
  IF fd \notin DOMAIN k.interest
  THEN [k EXCEPT !.err = TRUE]
  ELSE [k EXCEPT !.interest = Put(@, fd, [flags |-> flags, armed |-> TRUE])]

\* remove_interest that leaves the descriptor open.
RemoveInterestKeepsOpen(k, fd) ==
  IF fd \notin DOMAIN k.interest
  THEN [k EXCEPT !.err = TRUE]
  ELSE [k EXCEPT !.interest = Drop(@, fd), !.receivers = Drop(@, fd)]

\* epoll_ctl(EPOLL_CTL_DEL) fails on a descriptor that is not registered.
RemoveInterest(k, fd) ==
  IF fd \notin DOMAIN k.interest
  THEN [k EXCEPT !.err = TRUE]
  ELSE CloseFd([k EXCEPT !.interest = Drop(@, fd), !.receivers = Drop(@, fd)], fd)

\* apply that takes Exit for a no-op.
ApplyOneIgnoresExit(k, a) ==
  CASE a.op = "Add"    -> AddInterest(k, a.fd, a.flags, a.receiver)
    [] a.op = "Modify" -> ModifyInterest(k, a.fd, a.flags)
    [] a.op = "Remove" -> RemoveInterest(k, a.fd)
    [] OTHER           -> k

ApplyOne(k, a) ==
  CASE a.op = "Add"    -> AddInterest(k, a.fd, a.flags, a.receiver)
    [] a.op = "Modify" -> ModifyInterest(k, a.fd, a.flags)
    [] a.op = "Remove" -> RemoveInterest(k, a.fd)
    [] a.op = "Exit"   -> [k EXCEPT !.exit = TRUE]
    [] OTHER           -> k

RECURSIVE ApplyAll(_, _)

\* An apply that takes the actions from the back of the queue.
ApplyAllLastFirst(k, actions) ==
  IF actions = <<>> \/ k.err THEN k
  ELSE ApplyAll(ApplyOne(k, actions[Len(actions)]),
                SubSeq(actions, 1, Len(actions) - 1))

\* An apply that returns as soon as it has seen Exit.
ApplyAllStopsAtExit(k, actions) ==
  IF actions = <<>> \/ k.err \/ k.exit THEN k
  ELSE ApplyAll(ApplyOne(k, Head(actions)), Tail(actions))

\* The loop of apply: each action in turn, stopping at the first failure.
ApplyAll(k, actions) ==
  IF actions = <<>> \/ k.err THEN k
  ELSE ApplyAll(ApplyOne(k, Head(actions)), Tail(actions))

\* A match of run whose third arm takes the shutdown-class masks.
RouteHangup(v, registered) ==
  IF EPOLLIN \in v THEN (IF registered THEN "on_read" ELSE "unexpected")
  ELSE IF EPOLLOUT \in v THEN (IF registered THEN "on_write" ELSE "unexpected")
  ELSE IF EPOLLHUP \in v THEN "remove_interest"
  ELSE "unexpected"

\* The match of run on an event's mask: which arm takes it.
Route(v, registered) ==
  IF EPOLLIN \in v THEN (IF registered THEN "on_read" ELSE "unexpected")
  ELSE IF EPOLLOUT \in v THEN (IF registered THEN "on_write" ELSE "unexpected")
  ELSE IF EPOLLOUT \in v THEN "remove_interest"
  ELSE "unexpected"

RouteOf(f) == Route(events[f], f \in DOMAIN receivers)

\* A wakeup that is neither readable nor writable.
ShutdownClass(v) == EPOLLIN \notin v /\ EPOLLOUT \notin v

\* epoll_wait returns every registered, armed descriptor that has an event;
\* one-shot registration disarms each of them.
EpollWait ==
  /\ Running
  /\ phase = "wait"
  /\ ReadySet # {}
  /\ events' = [f \in ReadySet |-> Mask(f)]
  /\ interest' = [f \in DOMAIN interest |->
                    IF f \in ReadySet THEN [interest[f] EXCEPT !.armed = FALSE]
                    ELSE interest[f]]
  /\ pending' = <<>>
  /\ phase' = "dispatch"
  /\ hist' = [hist EXCEPT !.sigDelivered = @ \/ SignalFd \in ReadySet]
  /\ UNCHANGED <<failing, handles, receivers, result, buf, content_length, reqQueue, reqTokens,
                 contQueue, contTokens, sock, backlog, sigPending, timerExpired,
                 faults>>

\* An event that no callback takes: a mask without EPOLLIN and EPOLLOUT, or
\* a descriptor that has no receiver.
DispatchOther(f) ==
  /\ Running
  /\ phase = "dispatch"
  /\ f \in DOMAIN events
  /\ RouteOf(f) \in {"remove_interest", "unexpected"}
  /\ events' = Drop(events, f)
  /\ LET k == IF RouteOf(f) = "remove_interest" THEN RemoveInterest(Kernel, f) ELSE Kernel
     IN /\ receivers' = k.receivers
        /\ interest' = k.interest
        /\ sock' = k.sock
        /\ hist' = [hist EXCEPT !.closes = k.closes,
                                !.hupSeen = IF ShutdownClass(events[f])
                                            THEN @ \cup {f} ELSE @]
        /\ result' = IF k.err THEN "err" ELSE "running"
        /\ phase' = IF k.err THEN "done" ELSE "dispatch"
  /\ UNCHANGED <<failing, handles, pending, buf, content_length, reqQueue, reqTokens,
                 contQueue, contTokens, backlog, sigPending, timerExpired, faults>>

\* The end of a batch: apply drains the pending actions; run returns on a
\* failure or on Exit, and waits again otherwise.
Apply ==
  /\ Running
  /\ phase = "dispatch"
  /\ DOMAIN events = {}
  /\ LET k == ApplyAll(Kernel, pending)
     IN /\ receivers' = k.receivers
        /\ interest' = k.interest
        /\ sock' = k.sock
        /\ hist' = [hist EXCEPT !.closes = k.closes,
                                !.lastBatch = IF k.exit THEN pending ELSE @]
        /\ result' = IF k.err THEN "apply_err" ELSE IF k.exit THEN "ok" ELSE "running"
        /\ phase' = IF k.err \/ k.exit THEN "done" ELSE "wait"
  /\ pending' = <<>>
  /\ UNCHANGED <<failing, handles, events, buf, content_length, reqQueue, reqTokens,
                 contQueue, contTokens, backlog, sigPending, timerExpired, faults>>

\* A callback has returned Err (or panicked): run returns at once.
\* A run that logs a callback's Err and goes on with the batch.
EndedResumes(how) ==
  /\ result' = IF how = "err" THEN "running" ELSE how
  /\ phase' = IF how \in {"running", "err"} THEN "dispatch" ELSE "done"

\* How a callback of run ends: `?` on its result returns from run on Err.
Ended(how) == /\ result' = how
              /\ phase' = IF how = "running" THEN "dispatch" ELSE "done"

Dispatching(f, route, receiver) ==
  /\ Running
  /\ phase = "dispatch"
  /\ f \in DOMAIN events
  /\ RouteOf(f) = route
  /\ receivers[f] = receiver

\* ------------------------------------------------------ request_context.rs
\* eventfd_write on a mailbox eventfd fails with EBADF once the descriptor
\* is closed.
EventfdWriteFails(closes, efd) == closes[efd] >= hist.opens[efd]

\* impl Drop for Handle: close(self.efd), whatever other Handle values or
\* receivers still use the descriptor; the kernel takes a closed descriptor
\* out of the epoll interest set.
HandleDrop(h, k, efd) ==
  [handles |-> [h EXCEPT ![efd] = @ - 1],
   kernel  |-> [CloseFd(k, efd) EXCEPT !.interest = Drop(@, efd)]]

\* The code that created a Handle and bound it drops it before it enters
\* run; the clone given to the other actor stays.
DropHandle(efd) ==
  /\ Running /\ phase = "wait"
  /\ hist.accepted = 0 /\ backlog = 0 /\ ~timerExpired
  /\ handles[efd] = HandlesPerMailbox
  /\ LET d == HandleDrop(handles, Kernel, efd)
     IN /\ handles' = d.handles
        /\ interest' = d.kernel.interest
        /\ hist' = [hist EXCEPT !.closes = d.kernel.closes]
  /\ UNCHANGED <<failing, receivers, phase, events, pending, result, buf,
                 content_length, reqQueue, reqTokens, contQueue, contTokens, sock,
                 backlog, sigPending, timerExpired, faults>>

\* An eventfd_write that adds no token.
EventfdWriteLost(t) == t

\* eventfd_write(efd, 1): one more token on the counter.
EventfdWrite(t) == t + 1

\* An eventfd_read that takes every token (an eventfd without EFD_SEMAPHORE).
EventfdReadAll(t) == 0

\* eventfd_read on an EFD_SEMAPHORE eventfd: one token less.
EventfdRead(t) == t - 1

\* check_length that asks for the write only past the length.
CheckLengthPast(b, fd, length) ==
  IF fd \in DOMAIN b
  THEN IF b[fd] > length THEN <<Modify(fd, WRITE_FLAGS)>> ELSE <<Modify(fd, READ_FLAGS)>>
  ELSE <<>>

\* check_length that never asks for the write.
CheckLengthReads(b, fd, length) ==
  IF fd \in DOMAIN b THEN <<Modify(fd, READ_FLAGS)>> ELSE <<>>

\* check_length: the action it adds for fd, given the buffers b.
CheckLength(b, fd, length) ==
  IF fd \in DOMAIN b
  THEN IF b[fd] >= length THEN <<Modify(fd, WRITE_FLAGS)>> ELSE <<Modify(fd, READ_FLAGS)>>
  ELSE <<>>

\* handle_message for each drained message in turn: the content-length map
\* and the actions added.
RECURSIVE HandleMessages(_, _)
HandleMessages(acc, msgs) ==
  IF msgs = <<>> THEN acc
  ELSE LET m == Head(msgs)
           cl == Put(acc.content_length, m.receiver, m.content_length)
       IN HandleMessages(
            [content_length |-> cl,
             actions |-> acc.actions \o CheckLength(buf, m.receiver, m.content_length),
             handled |-> acc.handled + 1,
             inOrder |-> acc.inOrder /\ m.seq = acc.handled + 1],
            Tail(msgs))

\* A drain that leaves the messages in the queue.
DrainedKeeps(q) == q

\* What drain(..) leaves in the queue.
Drained(q) == <<>>

\* on_read for the actor's own eventfd: take one token, drain the queue, re-arm.
OnReadMailbox(f) ==
  /\ Dispatching(f, "on_read", "request_context")
  /\ f = ReqEfd
  /\ events' = Drop(events, f)
  /\ IF reqTokens = 0
     THEN /\ Ended("err")
          /\ UNCHANGED <<reqTokens, reqQueue, content_length, pending, hist>>
     ELSE LET r == HandleMessages([content_length |-> content_length, actions |-> <<>>,
                                   handled |-> hist.reqHandled, inOrder |-> hist.inOrder],
                                  reqQueue)
          IN /\ reqTokens' = EventfdRead(reqTokens)
             /\ reqQueue' = Drained(reqQueue)
             /\ content_length' = r.content_length
             /\ pending' = pending \o r.actions \o <<Modify(f, READ_FLAGS)>>
             /\ hist' = [hist EXCEPT !.reqHandled = r.handled, !.inOrder = r.inOrder,
                                     !.reqWakes = @ + 1]
             /\ Ended("running")
  /\ UNCHANGED <<failing, handles, receivers, interest, buf, contQueue, contTokens, sock,
                 backlog, sigPending, timerExpired, faults>>

\* read(2) on a client socket: the value returned, the bytes read, and the
\* socket afterwards.
Read(s) ==
  IF s.rx > 0
  THEN LET chunk == Plans[s.plan][s.sent]
       IN [res |-> Bytes(chunk), errno |-> "", data |-> chunk, sock |-> [s EXCEPT !.rx = 0]]
  ELSE IF s.st = "eof"
  THEN [res |-> 0, errno |-> "", data |-> <<>>, sock |-> s]
  ELSE IF s.st = "spur"
  THEN [res |-> -1, errno |-> "EAGAIN", data |-> <<>>, sock |-> [s EXCEPT !.st = "est"]]
  ELSE IF s.st = "est"
  THEN [res |-> -1, errno |-> "EAGAIN", data |-> <<>>, sock |-> s]
  ELSE [res |-> -1, errno |-> "ECONNRESET", data |-> <<>>, sock |-> s]

\* The test on a negative return value of read: whether on_read returns Err.
ReadFails(res) == res # EWOULDBLOCK

\* Handle::enqueue of content_actor: push the message, add one token.
EnqueueContent(q, data, fd) ==
  Append(q, [req |-> data, sender |-> fd, seq |-> hist.contEnq + 1])

\* A request for the content length that also re-arms the fd for read.
RequestActionsReArm(f) == <<Modify(f, READ_FLAGS)>>

\* What on_read asks of the reactor when it has sent a ContentLengthRequest:
\* nothing, the fd stays disarmed until the response is handled.
RequestActions(f) == <<>>

\* An append to the buffer of fd that creates no entry for a new fd.
ExtendBufExisting(b, fd, n) ==
  IF fd \in DOMAIN b THEN [b EXCEPT ![fd] = @ + n] ELSE b

\* self.buf.entry(fd).or_insert_with(..).extend_from_slice(&buf[..sz])
ExtendBuf(b, fd, n) == Put(b, fd, (IF fd \in DOMAIN b THEN b[fd] ELSE 0) + n)

\* on_read for a client fd.
OnReadClient(f) ==
  /\ Dispatching(f, "on_read", "request_context")
  /\ f # ReqEfd
  /\ events' = Drop(events, f)
  /\ LET r == Read(sock[f])
         b == IF r.res >= 0 THEN ExtendBuf(buf, f, r.res) ELSE buf
     IN /\ sock' = [sock EXCEPT ![f] = r.sock]
        /\ buf' = b
        /\ IF r.res < 0 /\ ReadFails(r.res)
           THEN /\ Ended("err")
                /\ UNCHANGED <<pending, contQueue, contTokens, hist>>
           ELSE IF f \notin DOMAIN content_length
           THEN IF r.res < 0
                THEN \* the slice &buf[..sz] with sz = res as usize panics
                     /\ Ended("panic")
                     /\ UNCHANGED <<pending, contQueue, contTokens, hist>>
                ELSE /\ contQueue' = EnqueueContent(contQueue, r.data, f)
                     /\ hist' = [hist EXCEPT !.contEnq = @ + 1]
                     /\ IF EventfdWriteFails(hist.closes, ContentEfd)
                        THEN UNCHANGED contTokens /\ Ended("err")
                        ELSE contTokens' = EventfdWrite(contTokens) /\ Ended("running")
                     /\ pending' = pending \o RequestActions(f)
           ELSE /\ pending' = pending \o CheckLength(b, f, content_length[f])
                /\ Ended("running")
                /\ UNCHANGED <<contQueue, contTokens, hist>>
  /\ UNCHANGED <<failing, handles, receivers, interest, content_length, reqQueue, reqTokens,
                 backlog, sigPending, timerExpired, faults>>

\* shutdown(fd, SHUT_RDWR) fails with ENOTCONN on a connection that is gone.
ShutdownFails(s) == s.st \in {"rst", "hup", "shut", "closed"}

\* write(2) of the response succeeds on a live connection, unless it fails.
CanWrite(s) == s.st \in {"est", "spur", "eof"}

\* on_write that asks for another write instead of the Remove.
WriteActionsAgain(f) == <<Modify(f, WRITE_FLAGS)>>

\* on_write that asks for the Remove twice.
WriteActionsTwice(f) == <<Remove(f), Remove(f)>>

\* What on_write asks of the reactor once the response is written.
WriteActions(f) == <<Remove(f)>>

\* on_write: one write of the response, shut the socket down, ask for Remove.
OnWrite(f) ==
  /\ Dispatching(f, "on_write", "request_context")
  /\ events' = Drop(events, f)
  /\ \E written \in BOOLEAN :
       /\ written => CanWrite(sock[f])
       /\ IF ~written /\ CanWrite(sock[f])
          THEN MayFail /\ faults' = faults + 1
          ELSE UNCHANGED faults
       /\ hist' = [hist EXCEPT !.writes[f] = @ + 1,
                               !.answered[f] = @ \/ written]
  /\ IF ShutdownFails(sock[f])
     THEN /\ Ended("err")
          /\ UNCHANGED <<pending, sock>>
     ELSE /\ sock' = [sock EXCEPT ![f].st = "shut"]
          /\ pending' = pending \o WriteActions(f)
          /\ Ended("running")
  /\ UNCHANGED <<failing, handles, receivers, interest, buf, content_length, reqQueue,
                 reqTokens, contQueue, contTokens, backlog, sigPending,
                 timerExpired>>

\* --------------------------------------------------------- content_actor.rs
HasHTTP(data) == \E i \in 1..Len(data) : data[i].http

\* eq_ignore_ascii_case against "content-length: ": the name in lower case.
ToLower(name) == IF name = "Content-Length: " THEN "content-length: " ELSE name

\* The test of a line without the condition on its length.
IsContentLengthAnyLength(l) == ToLower(l.name) = "content-length: "

\* The predicate of find: the line is longer than the prefix and starts with
\* it, whatever the case.
IsContentLength(l) == l.text > CONTENT_LENGTH_SZ /\ ToLower(l.name) = "content-length: "

\* parse_and_set_content_length: the length, or a panic on a tail that is
\* no number.
ParseContentLength(data) ==
  IF HasHTTP(data) /\ \E i \in 1..Len(data) : IsContentLength(data[i])
  THEN LET i == CHOOSE i \in 1..Len(data) :
                  /\ IsContentLength(data[i])
                  /\ \A j \in 1..(i - 1) : ~IsContentLength(data[j])
       IN IF data[i].valid THEN [panic |-> FALSE, length |-> data[i].val]
          ELSE [panic |-> TRUE, length |-> 0]
  ELSE [panic |-> FALSE, length |-> 0]

\* Handle::enqueue of request_context: push the message, add one token.
EnqueueReq(q, fd, length, n) ==
  Append(q, [receiver |-> fd, content_length |-> length, seq |-> n])

\* handle_message for each drained message in turn, up to a panic or a
\* failed enqueue.
RECURSIVE ContentMessages(_, _)
ContentMessages(acc, msgs) ==
  IF msgs = <<>> \/ acc.panic \/ acc.err THEN acc
  ELSE LET m == Head(msgs)
           p == ParseContentLength(m.req)
       IN ContentMessages(
            IF p.panic
            THEN [acc EXCEPT !.panic = TRUE, !.handled = @ + 1,
                             !.inOrder = @ /\ m.seq = acc.handled + 1]
            ELSE [acc EXCEPT !.queue = EnqueueReq(@, m.sender, p.length, acc.enq + 1),
                             !.tokens = IF EventfdWriteFails(hist.closes, ReqEfd)
                                        THEN @ ELSE EventfdWrite(@),
                             !.err = EventfdWriteFails(hist.closes, ReqEfd),
                             !.enq = @ + 1,
                             !.handled = @ + 1,
                             !.inOrder = @ /\ m.seq = acc.handled + 1],
            Tail(msgs))

\* on_ready of the content-length actor: take one token, drain the queue,
\* answer each request, re-arm.
ContentOnReady(f) ==
  /\ Dispatching(f, "on_read", "content_actor")
  /\ events' = Drop(events, f)
  /\ IF contTokens = 0
     THEN /\ Ended("err")
          /\ UNCHANGED <<contTokens, contQueue, reqQueue, reqTokens, pending, hist>>
     ELSE LET r == ContentMessages([queue |-> reqQueue, tokens |-> reqTokens,
                                    enq |-> hist.reqEnq, handled |-> hist.contHandled,
                                    inOrder |-> hist.inOrder, panic |-> FALSE,
                                    err |-> FALSE],
                                   contQueue)
          IN /\ contTokens' = EventfdRead(contTokens)
             /\ contQueue' = Drained(contQueue)
             /\ reqQueue' = r.queue
             /\ reqTokens' = r.tokens
             /\ hist' = [hist EXCEPT !.reqEnq = r.enq, !.contHandled = r.handled,
                                     !.inOrder = r.inOrder, !.contWakes = @ + 1]
             /\ IF r.panic
                THEN Ended("panic") /\ UNCHANGED pending
                ELSE IF r.err
                THEN Ended("err") /\ UNCHANGED pending
                ELSE Ended("running") /\ pending' = Append(pending, Modify(f, READ_FLAGS))
  /\ UNCHANGED <<failing, handles, receivers, interest, buf, content_length, sock, backlog,
                 sigPending, timerExpired, faults>>

\* --------------------------------------------------------------- request.rs
\* on_ready of the accept listener: accept one connection, ask for its Add
\* under the request-context receiver, re-arm.
AcceptOnReady(f) ==
  /\ Dispatching(f, "on_read", "listener")
  /\ events' = Drop(events, f)
  /\ backlog' = 0
  /\ \E plan \in AllPlans \cup {"ECONNABORTED"} :
       IF plan = "ECONNABORTED"
       THEN \* accept(2) fails: the connection was aborted while it waited
            /\ MayFail
            /\ faults' = faults + 1
            /\ Ended("err")
            /\ UNCHANGED <<pending, sock, hist>>
       ELSE LET fd == LowestFree
            IN /\ IF plan \in GoodPlans
                  THEN UNCHANGED faults
                  ELSE MayFail /\ faults' = faults + 1
               /\ sock' = [sock EXCEPT ![fd] = [plan |-> plan, sent |-> 0, rx |-> 0,
                                                st |-> "est"]]
               /\ hist' = [hist EXCEPT !.accepted = @ + 1,
                                       !.opens[fd] = @ + 1,
                                       !.writes[fd] = 0,
                                       !.answered[fd] = FALSE,
                                       !.hupSeen = @ \ {fd}]
               /\ pending' = pending \o <<Add(fd, READ_FLAGS, "request_context"),
                                          Modify(f, READ_FLAGS)>>
               /\ Ended("running")
  /\ UNCHANGED <<failing, handles, receivers, interest, buf, content_length, reqQueue,
                 reqTokens, contQueue, contTokens, sigPending, timerExpired>>

\* ---------------------------------------------------------------- signal.rs
\* What the signal listener asks of the reactor.
SignalActions == <<Exit>>

\* on_ready of the signal listener: read the siginfo, ask for Exit.
SignalOnReady(f) ==
  /\ Dispatching(f, "on_read", "signal")
  /\ events' = Drop(events, f)
  /\ sigPending' = FALSE
  /\ IF ~sigPending
     THEN Ended("err") /\ UNCHANGED pending
     ELSE Ended("running") /\ pending' = pending \o SignalActions
  /\ UNCHANGED <<failing, handles, receivers, interest, buf, content_length, reqQueue,
                 reqTokens, contQueue, contTokens, sock, backlog, timerExpired,
                 faults, hist>>

\* ----------------------------------------------------------------- timer.rs
\* A timer listener that does not re-arm.
TimerActionsOnce == <<PrintStats>>

\* What the timer listener asks of the reactor.
TimerActions == <<PrintStats, Modify(TimerFd, READ_FLAGS)>>

\* on_ready of the timer listener: read the expirations, ask for PrintStats,
\* re-arm.
TimerOnReady(f) ==
  /\ Dispatching(f, "on_read", "timer")
  /\ events' = Drop(events, f)
  /\ timerExpired' = FALSE
  /\ IF ~timerExpired
     THEN Ended("err") /\ UNCHANGED pending
     ELSE Ended("running")
          /\ pending' = pending \o TimerActions
  /\ UNCHANGED <<failing, handles, receivers, interest, buf, content_length, reqQueue,
                 reqTokens, contQueue, contTokens, sock, backlog, sigPending,
                 faults, hist>>

\* ------------------------------------------------------- the specification
ReactorStep ==
  \/ EpollWait
  \/ Apply
  \/ \E f \in Fds :
       \/ DispatchOther(f)
       \/ OnReadMailbox(f)
       \/ OnReadClient(f)
       \/ OnWrite(f)
       \/ ContentOnReady(f)
       \/ AcceptOnReady(f)
       \/ SignalOnReady(f)
       \/ TimerOnReady(f)

Sends == \E f \in ClientFds : ClientSend(f)

Environment ==
  \/ ClientConnect
  \/ Sends
  \/ TimerExpire
  \/ Sigint
  \/ \E f \in ClientFds :
       \/ PeerClose(f)
       \/ PeerReset(f)
       \/ PeerHangup(f)
       \/ SpuriousWake(f)

Next == ReactorStep \/ Environment

Spec == Init /\ [][Next]_vars

\* The program with peers and syscalls that do not fail and without SIGINT:
\* the steps of Next that such a run can take.
QuietInit == StartOfRun(FALSE)

QuietReactorStep ==
  \/ EpollWait
  \/ Apply
  \/ \E f \in Fds :
       \/ OnReadMailbox(f)
       \/ OnReadClient(f)
       \/ OnWrite(f)
       \/ ContentOnReady(f)
       \/ AcceptOnReady(f)
       \/ TimerOnReady(f)

QuietNext ==
  \/ QuietReactorStep
  \/ ClientConnect
  \/ Sends
  \/ TimerExpire
  \/ \E f \in ClientFds : PeerClose(f)

\* The reactor thread runs whenever it can, and a client that can send again
\* and again (each time the reactor waits) goes on to send the rest of its
\* request.
FairSpec == QuietInit /\ [][QuietNext]_vars
            /\ WF_vars(QuietReactorStep) /\ SF_vars(Sends)

\* The quiet program whose setup code may drop the Handle values it keeps
\* after binding the actors.
HandleInit == StartOfRun(FALSE)

HandleNext ==
  \/ QuietNext
  \/ \E efd \in MailboxFds : DropHandle(efd)

HandleSpec == HandleInit /\ [][HandleNext]_vars

\* One batch of run with any pending actions: the reactor as its receivers
\* may drive it through InterestActions::add.  The batch starts after the
\* receivers of the client fds have run and have added `pending`; the signal
\* and timer listeners may still be due; then apply.  A client fd is
\* registered ("reg"), accepted in this batch and not yet added ("new"), or
\* not an open descriptor ("closed").
BatchActions ==
  {Exit, PrintStats}
  \cup {Add(f, READ_FLAGS, "request_context") : f \in ClientFds}
  \cup {Modify(f, fl) : f \in ClientFds, fl \in {READ_FLAGS, WRITE_FLAGS}}
  \cup {Remove(f) : f \in ClientFds}

Batches == UNION {[1..n -> BatchActions] : n \in 0..MaxBatch}

BatchInit ==
  \E cl \in [ClientFds -> {"reg", "new", "closed"}],
     due \in SUBSET {SignalFd, TimerFd},
     batch \in Batches :
       LET reg == {f \in ClientFds : cl[f] = "reg"}
           open == {f \in ClientFds : cl[f] # "closed"}
       IN /\ receivers = [f \in BaselineFds \cup reg |->
                            CASE f = ContentEfd -> "content_actor"
                              [] f = ReqEfd     -> "request_context"
                              [] f = ListenFd   -> "listener"
                              [] f = SignalFd   -> "signal"
                              [] f = TimerFd    -> "timer"
                              [] OTHER          -> "request_context"]
          /\ interest = [f \in BaselineFds \cup reg |->
                           [flags |-> READ_FLAGS, armed |-> f \notin due \cup reg]]
          /\ phase = "dispatch"
          /\ events = [f \in due |-> {EPOLLIN}]
          /\ pending = batch
          /\ result = "running"
          /\ buf = EmptyFn
          /\ content_length = EmptyFn
          /\ reqQueue = <<>>
          /\ reqTokens = 0
          /\ contQueue = <<>>
          /\ contTokens = 0
          /\ sock = [f \in ClientFds |->
                       IF f \in open
                       THEN [plan |-> "raw", sent |-> 0, rx |-> 0, st |-> "est"]
                       ELSE ClosedSock]
          /\ backlog = 0
          /\ sigPending = (SignalFd \in due)
          /\ timerExpired = (TimerFd \in due)
          /\ failing = FALSE
          /\ handles = [f \in MailboxFds |-> HandlesPerMailbox]
          /\ faults = 0
          /\ hist = [accepted |-> Cardinality(open),
                     sigDelivered |-> SignalFd \in due, hupSeen |-> {},
                     reqEnq |-> 0, reqHandled |-> 0, contEnq |-> 0, contHandled |-> 0,
                     inOrder |-> TRUE,
                     reqWakes |-> 0, contWakes |-> 0, batch |-> batch,
                     lastBatch |-> <<>>,
                     writes |-> [f \in ClientFds |-> 0],
                     answered |-> [f \in ClientFds |-> FALSE],
                     opens  |-> [f \in Fds |-> IF f \in BaselineFds \cup open
                                               THEN 1 ELSE 0],
                     closes |-> [f \in Fds |-> 0]]

BatchNext ==
  \/ SignalOnReady(SignalFd)
  \/ TimerOnReady(TimerFd)
  \/ Apply

BatchSpec == BatchInit /\ [][BatchNext]_vars


\* One request text handed to the content-length actor: the request-context
\* actor has read `data` on client fd f in one read, has enqueued the
\* ContentLengthRequest and the batch is over; the reactor is about to wait.
ParseLines ==
  {ReqLine(15), HdrLine("content-length: ", 5), HdrLine("Content-Length: ", 7),
   HdrLine("content-type: te", 3), BadHdrLine, EmptyHdrLine, BodyLine(3)}

Datas == UNION {[1..n -> ParseLines] : n \in 0..MaxLines}

ParseInit ==
  \E data \in Datas, f \in ClientFds :
     /\ receivers = [g \in BaselineFds \cup {f} |->
                       CASE g = ContentEfd -> "content_actor"
                         [] g = ReqEfd     -> "request_context"
                         [] g = ListenFd   -> "listener"
                         [] g = SignalFd   -> "signal"
                         [] g = TimerFd    -> "timer"
                         [] OTHER          -> "request_context"]
     /\ interest = [g \in BaselineFds \cup {f} |->
                      [flags |-> READ_FLAGS, armed |-> g # f]]
     /\ phase = "wait"
     /\ events = EmptyFn
     /\ pending = <<>>
     /\ result = "running"
     /\ buf = Put(EmptyFn, f, Bytes(data))
     /\ content_length = EmptyFn
     /\ reqQueue = <<>>
     /\ reqTokens = 0
     /\ contQueue = <<[req |-> data, sender |-> f, seq |-> 1]>>
     /\ contTokens = EventfdWrite(0)
     /\ sock = [g \in ClientFds |->
                  IF g = f THEN [plan |-> "raw", sent |-> 1, rx |-> 0, st |-> "est"]
                  ELSE ClosedSock]
     /\ backlog = 0
     /\ sigPending = FALSE
     /\ timerExpired = FALSE
     /\ failing = FALSE
     /\ handles = [g \in MailboxFds |-> HandlesPerMailbox]
     /\ faults = 0
     /\ hist = [accepted |-> 1, sigDelivered |-> FALSE, hupSeen |-> {},
                reqEnq |-> 0, reqHandled |-> 0, contEnq |-> 1, contHandled |-> 0,
                inOrder |-> TRUE,
                reqWakes |-> 0, contWakes |-> 0, batch |-> <<>>, lastBatch |-> <<>>,
                writes |-> [g \in ClientFds |-> 0],
                answered |-> [g \in ClientFds |-> FALSE],
                opens  |-> [g \in Fds |-> IF g \in BaselineFds \cup {f} THEN 1 ELSE 0],
                closes |-> [g \in Fds |-> 0]]

ParseNext ==
  \/ EpollWait
  \/ ContentOnReady(ContentEfd)
  \/ OnReadMailbox(ReqEfd)
  \/ Apply
  \/ \E f \in ClientFds : OnWrite(f)

ParseSpec == ParseInit /\ [][ParseNext]_vars

\* ============================================================ properties
\* The actions a step has added to the pending list.
NewActions == IF Len(pending') > Len(pending)
              THEN SubSeq(pending', Len(pending) + 1, Len(pending'))
              ELSE <<>>
Adds(acts, a) == \E i \in 1..Len(acts) : acts[i] = a

\* The step is the dispatch of fd f's event to the arm `route` of run.
DispatchOf(f, route) ==
  /\ phase = "dispatch"
  /\ f \in DOMAIN events
  /\ f \notin DOMAIN events'
  /\ RouteOf(f) = route

Registered(f) == f \in DOMAIN receivers
Closed(f) == sock[f].st = "closed"

\* ---------------------------------------------------------------------- C1
\* C1: whenever the kernel reports a shutdown-class readiness (neither
\* readable nor writable) for a registered fd, the fd is out of the registry
\* and closed before the reactor waits again.
C1_ShutdownRemovesFd ==
  (Running /\ phase = "wait") =>
     \A f \in hist.hupSeen : ~Registered(f) /\ Closed(f)

\* ---------------------------------------------------------------------- C2
\* C2: every message enqueued on a Handle is handled exactly once, in enqueue
\* order, by a later wakeup of its actor: while run is running the queue of
\* each Handle holds exactly the messages enqueued and not yet handled, in
\* order, none was handled out of turn, and every message enqueued is
\* eventually handled unless run returns first.
InFifoOrder(q, handled, enqueued) ==
  /\ enqueued = handled + Len(q)
  /\ \A i \in 1..Len(q) : q[i].seq = handled + i

C2_Mailbox ==
  /\ hist.inOrder
  /\ Running => /\ InFifoOrder(contQueue, hist.contHandled, hist.contEnq)
                /\ InFifoOrder(reqQueue, hist.reqHandled, hist.reqEnq)

C2_ExactlyOnceInOrder ==
  /\ []C2_Mailbox
  /\ \A n \in 1..MaxAccepts :
       /\ (hist.contEnq >= n) ~> (hist.contHandled >= n \/ ~Running)
       /\ (hist.reqEnq >= n) ~> (hist.reqHandled >= n \/ ~Running)

\* Two requests were queued together and both were answered and handled.
C2_Witness ==
  /\ hist.contHandled >= 2
  /\ hist.reqHandled >= 2
  /\ Running

\* ---------------------------------------------------------------------- C3
\* A callback was invoked for fd f and returned Ok.
CallbackOk(f) ==
  /\ DispatchOf(f, "on_read") \/ DispatchOf(f, "on_write")
  /\ result' = "running"

ReArmed(f) ==
  \E i \in 1..Len(NewActions) :
     \/ NewActions[i].op \in {"Modify", "Remove"} /\ NewActions[i].fd = f
     \/ NewActions[i].op = "Add" /\ NewActions[i].fd # f

RequestSentFor(f) ==
  /\ Len(contQueue') = Len(contQueue) + 1
  /\ contQueue'[Len(contQueue')].sender = f

LengthReached(f) ==
  /\ f \in DOMAIN content_length
  /\ f \in DOMAIN buf
  /\ buf[f] >= content_length[f]

\* C4: once a connection fd's content length is known and its buffer has at
\* least that many bytes, the step that makes it so issues Modify-to-write
\* for the fd, and no Modify-to-read is issued for that fd from then on.
C4_WriteNotRead ==
  [][\A f \in ClientFds :
        /\ (LengthReached(f)' /\ ~LengthReached(f))
              => Adds(NewActions, Modify(f, WRITE_FLAGS))
        /\ LengthReached(f)' => ~Adds(NewActions, Modify(f, READ_FLAGS))]_vars

\* A connection that had to read more (Modify-to-read was applied while its
\* buffer was short) and whose buffer has now reached the length.
C4_Witness ==
  \E f \in ClientFds :
     /\ LengthReached(f)
     /\ sock[f].plan = "big"
     /\ sock[f].sent = 2 /\ sock[f].rx = 0
     /\ Adds(pending, Modify(f, WRITE_FLAGS))

\* ---------------------------------------------------------------------- C5
\* The content length the first chunk of a plan declares.
Declared(plan) == IF Plans[plan] = <<>> THEN 0
                  ELSE ParseContentLength(Plans[plan][1]).length

\* Bytes of the connection read after its first chunk.
BodyBytesRead(f) ==
  IF sock[f].sent - sock[f].rx >= 2 THEN Bytes(Plans[sock[f].plan][2]) ELSE 0

WriteIssued(f) ==
  \/ Adds(pending, Modify(f, WRITE_FLAGS))
  \/ f \in DOMAIN interest /\ interest[f].flags = WRITE_FLAGS
  \/ hist.writes[f] > 0

\* C5: for a request with content-length N > 0 that arrives in two reads
\* (headers, then body), Modify-to-write is issued and the response written
\* only after at least N bytes have been read after the header.
C5_WriteAfterBody ==
  \A f \in ClientFds :
     (/\ ~Closed(f)
      /\ hist.opens[f] = 1
      /\ Len(Plans[sock[f].plan]) = 2
      /\ Declared(sock[f].plan) > 0
      /\ WriteIssued(f))
     => BodyBytesRead(f) >= Declared(sock[f].plan)

\* ---------------------------------------------------------------------- C6
\* The step is apply, and it did not fail.
Applied == phase = "dispatch" /\ DOMAIN events = {} /\ phase' # "dispatch"
           /\ result' # "apply_err"

\* C6: applying a Remove for an fd of the registry erases exactly that
\* registry entry and closes the fd exactly once; no fd is closed more often
\* than it was opened, no fd of the registry is closed, and nothing but a
\* Remove closes an fd or erases an entry.
C6_RemoveOnce ==
  /\ [](\A f \in Fds : /\ hist.closes[f] <= hist.opens[f]
                       /\ Registered(f) => hist.closes[f] < hist.opens[f])
  /\ [][\A f \in Fds :
          IF Applied /\ Adds(pending, Remove(f))
          THEN /\ Registered(f)
               /\ ~Registered(f)'
               /\ hist.closes'[f] = hist.closes[f] + 1
               /\ f \in ClientFds => Closed(f)'
          ELSE /\ hist.closes'[f] = hist.closes[f]
               /\ Registered(f) => Registered(f)']_vars

\* A Remove was applied while another connection stayed registered.
C6_Witness ==
  \E f, g \in ClientFds :
     /\ f # g
     /\ hist.closes[f] = 1 /\ hist.opens[f] = 1 /\ ~Registered(f)
     /\ Registered(g)
     /\ Running

\* ---------------------------------------------------------------------- C7
\* C7: on_write runs at most once per accepted connection; after it the
\* only action asked for the fd is its Remove, the fd is not armed again,
\* and it is out of the registry and closed when the reactor next waits.
C7_WriteOnce ==
  \A f \in ClientFds :
     /\ hist.writes[f] <= 1
     /\ hist.writes[f] = 1 =>
          /\ \A i \in 1..Len(pending) :
                pending[i].fd = f => pending[i].op = "Remove"
          /\ Registered(f) => ~interest[f].armed
          /\ (Running /\ phase = "wait") => ~Registered(f) /\ Closed(f)

\* A connection was answered and removed while another one, whose request
\* is with the content-length actor, is still registered.
C7_Witness ==
  \E f, g \in ClientFds :
     /\ f # g
     /\ hist.writes[f] = 1 /\ ~Registered(f) /\ Closed(f)
     /\ Registered(g) /\ hist.writes[g] = 0
     /\ reqTokens > 0
     /\ Running

\* ---------------------------------------------------------------------- C8
\* C8: with concurrent clients that each send a complete request, and the
\* reactor and the clients scheduled fairly, every registered connection is
\* eventually answered and removed, and the registry eventually is the
\* baseline set again.
C8_AllAnswered ==
  /\ \A f \in ClientFds :
        Registered(f) ~> (hist.answered[f] /\ ~Registered(f) /\ Closed(f))
  /\ (DOMAIN receivers # BaselineFds) ~> (DOMAIN receivers = BaselineFds)

\* Two connections were open at once (the second got the next descriptor),
\* both were answered and removed, and the registry is the baseline again.
C8_Witness ==
  /\ \A f \in FirstClientFd..(FirstClientFd + 1) : hist.answered[f] /\ Closed(f)
  /\ DOMAIN receivers = BaselineFds
  /\ Running

\* ---------------------------------------------------------------------- C9
\* C9 as stated, its safety part: once SIGINT readiness is delivered, run
\* does not return an error.
C9_Original == hist.sigDelivered => result \notin {"err", "panic", "apply_err"}

\* C9 as amended: once SIGINT readiness is delivered, run returns within
\* that batch and does not wait again: each step of the batch takes one
\* event off it or ends run; run returns success when no callback of the
\* batch fails, and that callback's failure otherwise; apply does not fail.
C9_ReturnsInBatch ==
  /\ [](hist.sigDelivered =>
          /\ phase \in {"dispatch", "done"}
          /\ phase = "done" <=> result \in {"ok", "err", "panic"}
          /\ phase = "dispatch" <=> result = "running")
  /\ [][(hist.sigDelivered /\ phase = "dispatch") =>
          \/ phase' = "done" /\ result' = "ok" /\ DOMAIN events = {}
          \/ phase' = "done" /\ result' \in {"err", "panic"}
                /\ Cardinality(DOMAIN events') < Cardinality(DOMAIN events)
          \/ phase' = "dispatch"
                /\ Cardinality(DOMAIN events') < Cardinality(DOMAIN events)]_vars

\* SIGINT came in one batch with a client's event, and run returned success.
C9_Witness ==
  /\ hist.sigDelivered
  /\ result = "ok"
  /\ \E f \in ClientFds : Registered(f) /\ ~interest[f].armed

\* --------------------------------------------------------------------- C10
\* C10: a read on a client fd that fails with EAGAIN is swallowed: on_read
\* returns success, the connection's buffer and content-length entries are
\* unchanged, and the reactor keeps running.
C10_EagainSwallowed ==
  [][\A f \in ClientFds :
        (/\ DispatchOf(f, "on_read")
         /\ Running
         /\ Read(sock[f]).errno = "EAGAIN")
        => /\ result' = "running"
           /\ buf' = buf
           /\ content_length' = content_length]_vars

\* --------------------------------------------------------------------- C11
\* The step is a read of client fd f that fails with an error other than
\* EAGAIN, or a write of the response on f that fails.
IoError(f) ==
  \/ /\ DispatchOf(f, "on_read")
     /\ Read(sock[f]).res < 0
     /\ Read(sock[f]).errno # "EAGAIN"
  \/ /\ DispatchOf(f, "on_write")
     /\ hist'.writes[f] = hist.writes[f] + 1
     /\ ~hist'.answered[f]

\* C11: a read or write error on a client fd is contained to that
\* connection: a Remove is issued for the fd and run does not terminate.
C11_IoErrorContained ==
  [][\A f \in ClientFds :
        (Running /\ Registered(f) /\ IoError(f))
        => /\ result' = "running"
           /\ Adds(NewActions, Remove(f))]_vars

\* --------------------------------------------------------------------- C12
\* The step is the accept listener's callback, and accept failed: no
\* connection was accepted.
AcceptFailed ==
  /\ DispatchOf(ListenFd, "on_read")
  /\ Running
  /\ hist'.accepted = hist.accepted

\* C12: a failed accept does not stop the loop: the callback returns
\* success, re-arms the listening fd for read and adds no client fd.
C12_AcceptFailureContinues ==
  [][AcceptFailed
     => /\ result' = "running"
        /\ Adds(NewActions, Modify(ListenFd, READ_FLAGS))
        /\ \A i \in 1..Len(NewActions) : NewActions[i].op # "Add"]_vars

\* --------------------------------------------------------------------- C13
\* C13: when a client connects and closes without sending any byte, the
\* server never writes a response on that fd (on_write does not run for it),
\* and once the close was seen and the reactor waits again the fd is out of
\* the registry and closed.
C13_SilentCloseNoResponse ==
  \A f \in ClientFds :
     (/\ ~Closed(f)
      /\ hist.opens[f] = 1
      /\ sock[f].plan = "none")
     => /\ hist.writes[f] = 0
        /\ \A i \in 1..Len(pending) : pending[i] # Modify(f, WRITE_FLAGS)

\* --------------------------------------------------------------------- C14
\* C14: a request whose content-length value is not a non-negative integer
\* is fatal: no response is written for that connection (on_write does not
\* run for it and no write is asked for it), and the reactor terminates.
C14_BadLengthFatal ==
  \A f \in ClientFds :
     (~Closed(f) /\ sock[f].plan = "bad")
     => /\ hist.writes[f] = 0
        /\ \A i \in 1..Len(pending) : pending[i] # Modify(f, WRITE_FLAGS)
        /\ (f \in DOMAIN content_length /\ sock[f].sent = 1 /\ sock[f].rx = 0)
              => ~Running
\* --------------------------------------------------------------------- C15
\* The step is apply.
ApplyStep == phase = "dispatch" /\ DOMAIN events = {} /\ phase' # "dispatch"

Names(a, f) == a.op \in {"Add", "Modify", "Remove"} /\ a.fd = f

\* C15: for any registry and any open fd f not in it, a batch whose pending
\* actions are Add(f, flags, R) immediately followed by Remove(f) leaves
\* the registry as it was before the batch, f closed and f absent from the
\* kernel interest set, and apply does not fail; the same holds for f when
\* other actions that do not name f and do not fail surround the pair.
C15_AddThenRemove ==
  [][\A f \in ClientFds :
       \A i \in 1..(Len(pending) - 1) :
         (/\ ApplyStep
          /\ ~Registered(f) /\ ~Closed(f)
          /\ pending[i].op = "Add" /\ pending[i].fd = f
          /\ pending[i + 1] = Remove(f)
          /\ \A j \in 1..Len(pending) : Names(pending[j], f) => j \in {i, i + 1})
         => /\ Len(pending) = 2 =>
                 /\ receivers' = receivers
                 /\ interest' = interest
                 /\ result' = "running"
            /\ result' # "apply_err" =>
                 /\ ~Registered(f)'
                 /\ f \notin DOMAIN interest'
                 /\ Closed(f)'
                 /\ hist'.closes[f] = hist.closes[f] + 1]_vars

\* The batch Add(f), Remove(f) was applied for a descriptor accepted in the
\* batch, with another connection in the registry.
C15_Witness ==
  \E f, g \in ClientFds :
     /\ f # g
     /\ hist.batch = <<Add(f, READ_FLAGS, "request_context"), Remove(f)>>
     /\ phase = "wait"
     /\ hist.opens[f] = 1 /\ hist.closes[f] = 1
     /\ Closed(f) /\ ~Registered(f)
     /\ Registered(g)

\* --------------------------------------------------------------------- C16
\* The reactor after the first n pending actions were applied one by one in
\* the order they were appended, up to the first that fails.
RECURSIVE AfterFirst(_)
AfterFirst(n) ==
  IF n = 0 THEN Kernel
  ELSE LET k == AfterFirst(n - 1)
       IN IF k.err THEN k ELSE ApplyOne(k, pending[n])

IsPrefix(p, q) == Len(p) <= Len(q) /\ SubSeq(q, 1, Len(p)) = p

\* C16: within one batch no pending action takes effect while a ready
\* receiver is still to be invoked (the registry, the interest set and the
\* descriptors stay as they are, and receivers only append to the pending
\* actions); then the actions are applied one by one in the order they were
\* appended, across all receivers of the batch, up to the first failure.
C16_AppliedFifoAfterBatch ==
  /\ [][DOMAIN events # {} =>
          /\ receivers' = receivers
          /\ interest' = interest
          /\ hist'.closes = hist.closes
          /\ \A f \in ClientFds : Closed(f)' => Closed(f)
          /\ IsPrefix(pending, pending')]_vars
  /\ [][ApplyStep =>
          LET k == AfterFirst(Len(pending))
          IN /\ receivers' = k.receivers
             /\ interest' = k.interest
             /\ sock' = k.sock
             /\ hist'.closes = k.closes
             /\ result' = IF k.err THEN "apply_err"
                          ELSE IF k.exit THEN "ok" ELSE "running"]_vars

\* A batch whose outcome depends on the order was applied after the signal
\* listener had appended its Exit behind it: the Modify appended last
\* decides the flags.
C16_Witness ==
  \E f \in ClientFds :
     /\ hist.batch = <<Modify(f, READ_FLAGS), Modify(f, WRITE_FLAGS)>>
     /\ hist.lastBatch = hist.batch \o <<Exit>>
     /\ result = "ok"
     /\ interest[f] = [flags |-> WRITE_FLAGS, armed |-> TRUE]

\* --------------------------------------------------------------------- C17
\* The action at position j of the pending actions is the last one that
\* names its fd.
LastOnFd(j) ==
  \A m \in (j + 1)..Len(pending) : ~Names(pending[m], pending[j].fd)

\* What the action a leaves behind once it is applied.
TookEffect(a) ==
  CASE a.op = "Add"    -> /\ a.fd \in DOMAIN receivers'
                          /\ receivers'[a.fd] = a.receiver
                          /\ interest'[a.fd] = [flags |-> a.flags, armed |-> TRUE]
    [] a.op = "Modify" -> /\ a.fd \in DOMAIN interest'
                          /\ interest'[a.fd] = [flags |-> a.flags, armed |-> TRUE]
    [] a.op = "Remove" -> /\ a.fd \notin DOMAIN receivers'
                          /\ a.fd \notin DOMAIN interest'
                          /\ hist'.closes[a.fd] = hist.closes[a.fd] + 1
    [] OTHER           -> TRUE

\* C17: when an Exit action is among a batch's pending actions, every
\* action after it in the batch is still applied, and run then returns
\* success without waiting for another batch.
C17_ExitFinishesDrain ==
  [][\A i \in 1..Len(pending) :
        (ApplyStep /\ pending[i] = Exit)
        => /\ result' = "ok"
           /\ phase' = "done"
           /\ \A j \in (i + 1)..Len(pending) :
                 LastOnFd(j) => TookEffect(pending[j])]_vars

\* run returned success on a batch in which an Add and a re-arm came after
\* Exit, and both took effect.
C17_Witness ==
  /\ result = "ok"
  /\ \E i, j, m \in 1..Len(hist.lastBatch) :
        /\ i < j /\ i < m
        /\ hist.lastBatch[i] = Exit
        /\ hist.lastBatch[j].op = "Add"
        /\ Registered(hist.lastBatch[j].fd)
        /\ interest[hist.lastBatch[j].fd].armed
        /\ hist.lastBatch[m] = Modify(ListenFd, READ_FLAGS)
        /\ interest[ListenFd].armed

\* --------------------------------------------------------------------- C18
\* C18: the fd-to-receiver registry is unchanged while the receiver
\* callbacks of a batch run, and while the reactor waits: entries are
\* inserted or erased only by the apply step that ends a batch.
C18_RegistryOnlyInApply ==
  [][receivers' # receivers => ApplyStep]_vars

\* A receiver has run and asked for an Add that the registry does not hold
\* yet, while another receiver of the batch is still to be invoked.
C18_Witness ==
  \E f \in ClientFds :
     /\ phase = "dispatch"
     /\ DOMAIN events # {}
     /\ Adds(pending, Add(f, READ_FLAGS, "request_context"))
     /\ ~Registered(f)
     /\ \E g \in ClientFds : Registered(g) /\ Adds(pending, Remove(g))

\* --------------------------------------------------------------------- C19
\* The step is a wakeup of the request-context actor / the content actor.
ReqWake  == DispatchOf(ReqEfd, "on_read")
ContWake == DispatchOf(ContentEfd, "on_read")

\* C19: each enqueue adds exactly one token to the mailbox's eventfd; each
\* mailbox wakeup finds at least one token, takes exactly one and drains
\* every message queued at that moment; hence a mailbox never holds more
\* messages than tokens, and whenever the reactor is about to wait a
\* non-empty mailbox has a token.
C19_TokenPerMessage ==
  /\ [](/\ reqTokens >= Len(reqQueue)
        /\ contTokens >= Len(contQueue)
        /\ (Running /\ phase = "wait") =>
              /\ reqQueue # <<>> => reqTokens >= 1 /\ Registered(ReqEfd)
              /\ contQueue # <<>> => contTokens >= 1 /\ Registered(ContentEfd))
  /\ [][/\ IF ReqWake
           THEN /\ reqTokens >= 1
                /\ reqTokens' = reqTokens - 1
                /\ reqQueue' = <<>>
                /\ hist'.reqHandled = hist.reqHandled + Len(reqQueue)
           ELSE /\ Len(reqQueue') >= Len(reqQueue)
                /\ reqTokens' - reqTokens = Len(reqQueue') - Len(reqQueue)
                /\ hist'.reqEnq - hist.reqEnq = Len(reqQueue') - Len(reqQueue)
        /\ IF ContWake
           THEN /\ contTokens >= 1
                /\ contTokens' = contTokens - 1
                /\ contQueue' = <<>>
                /\ result' = "running" =>
                      hist'.contHandled = hist.contHandled + Len(contQueue)
           ELSE /\ Len(contQueue') >= Len(contQueue)
                /\ contTokens' - contTokens = Len(contQueue') - Len(contQueue)
                /\ hist'.contEnq - hist.contEnq = Len(contQueue') - Len(contQueue)]_vars

\* Two requests were enqueued before the content actor woke; its one wakeup
\* drained both and enqueued two responses; the reactor is about to wait.
C19_Witness ==
  /\ Running /\ phase = "wait"
  /\ hist.contWakes = 1 /\ contQueue = <<>> /\ contTokens = 1
  /\ Len(reqQueue) = 2 /\ reqTokens = 2

\* --------------------------------------------------------------------- C20
\* C20 as stated: n >= 2 messages enqueued on one Handle before its actor's
\* next wakeup cause fewer than n wakeups: the wakeup that drains them, and
\* one more for every token it leaves, are fewer than n.
C20_Original ==
  [][/\ (ReqWake /\ Len(reqQueue) >= 2 /\ reqTokens = Len(reqQueue))
           => 1 + reqTokens' < Len(reqQueue)
     /\ (ContWake /\ Len(contQueue) >= 2 /\ contTokens = Len(contQueue))
           => 1 + contTokens' < Len(contQueue)]_vars

\* C20 as amended: messages enqueued on one Handle before its actor's next
\* wakeup are all handled by that one wakeup, but the wakeups do not
\* coalesce: every message causes exactly one wakeup, taken or still due
\* (wakeups + tokens = messages), so n messages cause n wakeups, the later
\* ones finding the queue empty.
C20_OneWakePerMessage ==
  /\ [](/\ hist.reqWakes + reqTokens = hist.reqEnq
        /\ hist.contWakes + contTokens = hist.contEnq)
  /\ [][/\ (ReqWake /\ Len(reqQueue) >= 2 /\ reqTokens = Len(reqQueue))
              => /\ hist'.reqHandled = hist.reqHandled + Len(reqQueue)
                 /\ 1 + reqTokens' = Len(reqQueue)
        /\ (ContWake /\ Len(contQueue) >= 2 /\ contTokens = Len(contQueue))
              => /\ contQueue' = <<>>
                 /\ 1 + contTokens' = Len(contQueue)]_vars

\* One wakeup of the request-context actor has handled two responses that
\* were enqueued together, and a second wakeup is still due.
C20_Witness ==
  /\ hist.reqWakes = 1
  /\ hist.reqHandled = 2
  /\ reqQueue = <<>>
  /\ reqTokens = 1
  /\ Running

\* --------------------------------------------------------------------- C21
\* The step is on_write for f, and its write of the response failed.
WriteFailed(f) ==
  /\ DispatchOf(f, "on_write")
  /\ Running
  /\ hist'.writes[f] = hist.writes[f] + 1
  /\ ~hist'.answered[f]

\* C21: when the response write on a client fd fails, on_write still
\* appends Remove for the fd and returns success, also when the shutdown
\* that follows fails.
C21_WriteFailureStillRemoves ==
  [][\A f \in ClientFds :
        WriteFailed(f) => /\ result' = "running"
                          /\ Adds(NewActions, Remove(f))]_vars

\* --------------------------------------------------------------------- C22
\* C22: after a connection fd is removed, the request-context actor holds
\* neither a buffer entry nor a content-length entry for it.
C22_EntriesErasedOnRemove ==
  \A f \in ClientFds :
     (~Registered(f) /\ Closed(f)) =>
        /\ f \notin DOMAIN buf
        /\ f \notin DOMAIN content_length

\* --------------------------------------------------------------------- C23
\* The four states of a connection fd in the request-context actor.
Reading(f) ==
  /\ Registered(f) /\ interest[f].flags = READ_FLAGS
  /\ f \notin DOMAIN content_length
ReadingKnown(f) ==
  /\ Registered(f) /\ interest[f].flags = READ_FLAGS
  /\ f \in DOMAIN content_length
Writing(f) == Registered(f) /\ interest[f].flags = WRITE_FLAGS
ConnClosed(f) == ~Registered(f)

ConnStates(f) ==
  {st \in {"Reading", "ReadingKnown", "Writing", "Closed"} :
     \/ st = "Reading"      /\ Reading(f)
     \/ st = "ReadingKnown" /\ ReadingKnown(f)
     \/ st = "Writing"      /\ Writing(f)
     \/ st = "Closed"       /\ ConnClosed(f)}

\* C23: in every reachable state each fd with a content-length entry also
\* has a buffer entry, and each connection fd is in exactly one of Reading,
\* ReadingKnown, Writing or Closed.
C23_EntriesAndStates ==
  /\ DOMAIN content_length \subseteq DOMAIN buf
  /\ \A f \in ClientFds : Cardinality(ConnStates(f)) = 1

C23_Witness ==
  \E f, g \in ClientFds :
     /\ ReadingKnown(f) /\ buf[f] < content_length[f]
     /\ Writing(g)

\* --------------------------------------------------------------------- C24
\* The lines of a request text that are longer than the prefix
\* "content-length: " and start with it, whatever the case of the letters.
LengthLines(data) ==
  SelectSeq(data, LAMBDA l : /\ l.text > CONTENT_LENGTH_SZ
                             /\ l.name \in {"content-length: ", "Content-Length: "})

\* The lines that start with the prefix, whatever their length.
PrefixLines(data) ==
  SelectSeq(data, LAMBDA l : l.name \in {"content-length: ", "Content-Length: "})

\* The tail of the first length line of a text with "HTTP" is no integer.
FatalText(data) ==
  HasHTTP(data) /\ LengthLines(data) # <<>> /\ ~Head(LengthLines(data)).valid

ExpectedLength(data) ==
  IF HasHTTP(data) /\ LengthLines(data) # <<>> THEN Head(LengthLines(data)).val ELSE 0

ClaimedLength(data) ==
  IF HasHTTP(data) /\ PrefixLines(data) # <<>> THEN Head(PrefixLines(data)).val ELSE 0

\* The responses a step has enqueued on the request-context Handle.
NewResponses ==
  IF Len(reqQueue') > Len(reqQueue)
  THEN SubSeq(reqQueue', Len(reqQueue) + 1, Len(reqQueue'))
  ELSE <<>>

\* How many of the queued requests the content actor's wakeup has handled.
HandledNow == hist'.contHandled - hist.contHandled

\* C24 as stated: for every ContentLengthRequest{req, sender} the actor
\* handles it enqueues exactly one ContentLengthResponse addressed to the
\* same fd, whose length is 0 when req lacks "HTTP" or has no line starting
\* with "content-length: ", otherwise the integer after the prefix on the
\* first such line.
C24_Original ==
  [][(ContWake /\ Running /\ contTokens > 0) =>
       /\ Len(NewResponses) = HandledNow
       /\ \A i \in 1..HandledNow :
            /\ NewResponses[i].receiver = contQueue[i].sender
            /\ NewResponses[i].content_length = ClaimedLength(contQueue[i].req)]_vars

\* C24: for every request the actor handles whose text is not fatal it
\* enqueues exactly one response addressed to the same fd, with length 0
\* when req lacks "HTTP" or has no line longer than the prefix that starts
\* with it, otherwise the integer after the prefix on the first such line;
\* a text whose first such line has no integer after the prefix makes the
\* actor panic: no response is enqueued for it and none of the requests
\* queued behind it is handled.
C24_OneResponsePerRequest ==
  [][(ContWake /\ Running /\ contTokens > 0) =>
       LET fatal == {i \in 1..Len(contQueue) : FatalText(contQueue[i].req)}
           first == IF fatal = {} THEN Len(contQueue) + 1
                    ELSE CHOOSE i \in fatal : \A j \in fatal : i <= j
       IN /\ HandledNow = IF fatal = {} THEN Len(contQueue) ELSE first
          /\ Len(NewResponses) = first - 1
          /\ (result' = "panic") = (fatal # {})
          /\ \A i \in 1..(first - 1) :
               /\ NewResponses[i].receiver = contQueue[i].sender
               /\ NewResponses[i].content_length = ExpectedLength(contQueue[i].req)]_vars

\* A text with a line that is exactly the prefix before the header proper
\* was answered with the header's length.
C24_Witness ==
  /\ hist.contHandled = 1 /\ hist.reqEnq = 1
  /\ reqQueue # <<>>
  /\ reqQueue[1].content_length = 5
  /\ \E f \in ClientFds : reqQueue[1].receiver = f /\ buf[f] = 15 + 2 + 16 + 2 + 17 + 2

\* --------------------------------------------------------------------- C25
\* The step is a receiver callback that returns Err: accept fails in the
\* listener, or read fails on a client fd.
CallbackErr ==
  \/ AcceptFailed
  \/ \E f \in ClientFds :
       /\ Running
       /\ DispatchOf(f, "on_read")
       /\ Read(sock[f]).res < 0

\* C25: when a receiver callback returns an error during a batch, run
\* returns that error at once: the remaining events of the batch are not
\* dispatched, none of the batch's pending actions is applied, and the loop
\* does not wait again (no step follows the end of run).
C25_CallbackErrorEndsRun ==
  [][/\ Running
     /\ CallbackErr => result' = "err"
     /\ result' = "err" =>
          /\ phase' = "done"
          /\ pending' = pending
          /\ receivers' = receivers
          /\ interest' = interest
          /\ hist'.closes = hist.closes
          /\ \A f \in ClientFds : Closed(f)' = Closed(f)]_vars

\* run has returned a callback's error with events of the batch still to
\* dispatch and pending actions not applied.
C25_Witness ==
  /\ result = "err"
  /\ phase = "done"
  /\ DOMAIN events # {}
  /\ pending # <<>>

\* --------------------------------------------------------------------- C26
\* C26: dropping one clone of an actor Handle while another clone or the
\* bound receiver still uses the mailbox does not close the mailbox
\* eventfd: it is closed only when the last Handle owning it is dropped,
\* and it is closed once.
C26_ClosedByLastHandleOnly ==
  \A efd \in MailboxFds :
     /\ hist.closes[efd] <= hist.opens[efd]
     /\ (handles[efd] >= 1 \/ Registered(efd)) => hist.closes[efd] = 0

\* --------------------------------------------------------------------- C27
\* C27: every Modify and Remove the reactor applies names an fd that is in
\* the registry at the moment it is applied, given the earlier actions of
\* the same batch, so apply never fails; a ContentLengthResponse that the
\* request-context actor handles is addressed to a registered fd.
C27_AppliedNamesRegistered ==
  /\ [](result # "apply_err")
  /\ [][/\ ApplyStep =>
             \A i \in 1..Len(pending) :
                LET k == AfterFirst(i - 1)
                IN /\ ~k.err
                   /\ pending[i].op \in {"Modify", "Remove"} =>
                         /\ pending[i].fd \in DOMAIN k.receivers
                         /\ pending[i].fd \in DOMAIN k.interest
        /\ (ReqWake /\ Running) =>
             \A i \in 1..Len(reqQueue) :
                /\ Registered(reqQueue[i].receiver)
                /\ ~Closed(reqQueue[i].receiver)]_vars

\* The Modify of a handled response was applied to its connection fd (it
\* waits for write) while the Remove of another connection was applied.
C27_Witness ==
  \E f, g \in ClientFds :
     /\ f # g
     /\ Running /\ phase = "wait"
     /\ Writing(f) /\ interest[f].armed
     /\ hist.reqHandled >= 2
     /\ hist.closes[g] = 1 /\ ~Registered(g)

\* --------------------------------------------------------------------- C28
\* The ContentLengthRequests of fd f that wait in the content actor's
\* mailbox, and the responses for f that wait in the request-context
\* actor's mailbox.
RequestsOf(f)  == SelectSeq(contQueue, LAMBDA m : m.sender = f)
ResponsesOf(f) == SelectSeq(reqQueue, LAMBDA m : m.receiver = f)
Outstanding(f) == Len(RequestsOf(f)) + Len(ResponsesOf(f))

\* C28: for every connection fd at most one ContentLengthRequest is
\* outstanding at any time (enqueued, its response not yet handled); while
\* it is outstanding the fd is disarmed and has no event to dispatch, so it
\* gets no read callback; and the text sent in the request is the whole
\* buffer accumulated for the fd.
C28_OneRequestWholeBuffer ==
  \A f \in ClientFds :
     /\ Outstanding(f) <= 1
     /\ Outstanding(f) = 1 =>
          /\ Registered(f)
          /\ ~interest[f].armed
          /\ f \notin DOMAIN events
          /\ f \notin DOMAIN content_length
     /\ \A i \in 1..Len(RequestsOf(f)) :
          /\ f \in DOMAIN buf
          /\ Bytes(RequestsOf(f)[i].req) = buf[f]

\* A request is outstanding for a connection whose next bytes have already
\* arrived, while the reactor waits, and another connection's response is
\* queued.
C28_Witness ==
  \E f, g \in ClientFds :
     /\ f # g
     /\ Running /\ phase = "wait"
     /\ Len(RequestsOf(f)) = 1 /\ buf[f] > 0
     /\ sock[f].rx > 0
     /\ Len(ResponsesOf(g)) = 1

\* --------------------------------------------------------------------- C29
\* C29: when Handle::enqueue returns an error because the semaphore write
\* failed, the mailbox FIFO is unchanged: the message that was being
\* enqueued is not left queued without a wake token.
C29_FailedEnqueueLeavesFifo ==
  [][(Running /\ result' = "err") =>
       /\ Len(contQueue') <= Len(contQueue)
       /\ Len(reqQueue') <= Len(reqQueue)]_vars

====
